---- MODULE Spec2Model ----
(***************************************************************************)
(* Model of bitcoin-codecs (src/src/lib.rs): the push-based decoder of    *)
(* Bitcoin v1 transport messages, V1MessageDecoder, which is              *)
(*   HeaderDecoder.then(PayloadDecoder::new)                               *)
(* and of the caller loop of src/examples/std.rs that constructs one      *)
(* decoder per frame.                                                      *)
(*                                                                         *)
(* Bytes are the numbers 0..255.  A u32 is kept as its two 16-bit halves  *)
(* [hi, lo] because TLC's integers are 32-bit signed and the header's     *)
(* length field ranges up to 2^32-1.                                       *)
(*                                                                         *)
(* The decoders only expose decode_chunk(&mut self, bytes: &mut &[u8])    *)
(* and end(self) (lib.rs:79-108, 130-148, 172-180): the one signal a      *)
(* stage gives its combinator is the cursor, so a combinator learns that  *)
(* its first stage is complete only from bytes that stage left in the     *)
(* chunk.  Chain and Then are modelled accordingly.                        *)
(***************************************************************************)
EXTENDS Integers, Sequences, FiniteSets, TLC

VARIABLES
    input,      \* the byte stream the caller reads from, and how it was built
    decoder,    \* the live V1MessageDecoder (its Then state)
    pos,        \* caller's cursor: bytes of input.bytes consumed so far
    start,      \* cursor at the construction of the live decoder
    status,     \* "feeding" | "failed" (decode_chunk returned Err) | "ended"
    result,     \* the Result of the last decode_chunk / end call
    lastop,     \* "new" | "decode_chunk" | "end"
    leftover,   \* the last decode_chunk call left bytes of its chunk unconsumed
    messages,   \* values returned by end so far, in order
    requested,  \* sizes passed to ByteVecDecoder::new so far, in order
    ndecoders,  \* decoders constructed so far on this stream
    nfed,       \* non-empty chunks the live decoder took bytes from,
                \* counted up to MaxCounted
    instances,  \* several decoders, one per stream, driven side by side:
                \* for each its stream, network, decoder, cursor, status,
                \* last result and leftover flag (empty in Spec)
    schedule    \* the instance last operated on and the number of times the
                \* caller switched instance, counted up to MaxCounted

vars == <<input, decoder, pos, start, status, result, lastop, leftover,
          messages, requested, ndecoders, nfed, instances, schedule>>

----------------------------------------------------------------------------
(* Bounds of the model.                                                    *)

\* Decoders constructed per stream (iterations of the caller's loop).
MaxDecoders == 2
\* Surplus bytes appended after the last frame of some streams.
MaxSurplus == 3
\* The count of chunks fed to a decoder is kept up to this number.
MaxCounted == 2

----------------------------------------------------------------------------
(* Bytes and integers.                                                     *)

Min(a, b) == IF a < b THEN a ELSE b

Take(s, n) == SubSeq(s, 1, n)

Drop(s, n) == SubSeq(s, n + 1, Len(s))

\* A u32 from a natural below 2^31.
U32(n) == [hi |-> n \div 65536, lo |-> n % 65536]

U32Gt(a, b) == a.hi > b.hi \/ (a.hi = b.hi /\ a.lo > b.lo)

\* Variant: the four length bytes read most significant byte first.
u32_from_be_bytes(b) == [hi |-> b[2] + 256 * b[1], lo |-> b[4] + 256 * b[3]]

\* IntDecoder<u32, LittleEndian>: the value of four captured bytes.
u32_from_le_bytes(b) == [hi |-> b[3] + 256 * b[4], lo |-> b[1] + 256 * b[2]]

u32_to_le_bytes(v) ==
    <<v.lo % 256, v.lo \div 256, v.hi % 256, v.hi \div 256>>

\* `length as usize` (usize is at least 32 bits wide); used for lengths that
\* passed the ceiling check.
as_usize(v) == v.hi * 65536 + v.lo

\* 32 * 1024 * 1024
MAX_PAYLOAD == U32(32 * 1024 * 1024)

----------------------------------------------------------------------------
(* Checksum.  sha256d is replaced by a stand-in with the properties the   *)
(* decoder relies on: a deterministic function of the bytes alone giving  *)
(* four bytes; it gives the real value 5D F6 E0 E2 on the empty string,   *)
(* and changes whenever a single byte or the length changes.               *)

RECURSIVE SumBytes(_)
SumBytes(s) == IF s = <<>> THEN 0 ELSE (s[1] + SumBytes(Tail(s))) % 256

RECURSIVE WeightedSum(_, _)
WeightedSum(s, i) ==
    IF s = <<>> THEN 0 ELSE (i * s[1] + WeightedSum(Tail(s), i + 1)) % 256

sha256d_checksum(data) ==
    << (93 + SumBytes(data)) % 256,
       (246 + WeightedSum(data, 1)) % 256,
       (224 + Len(data)) % 256,
       (226 + 3 * SumBytes(data) + Len(data)) % 256 >>

----------------------------------------------------------------------------
(* Results and errors.                                                     *)

Ok(v) == [ok |-> TRUE, val |-> v]

Err(e) == [ok |-> FALSE, val |-> e]

Unit == [kind |-> "unit"]

UnexpectedEnd == [kind |-> "UnexpectedEnd"]

\* enum DecodeError
WrongMagic(expected, actual) ==
    [kind |-> "WrongMagic", expected |-> expected, actual |-> actual]

InvalidCommand == [kind |-> "InvalidCommand"]

PayloadTooLarge(size) == [kind |-> "PayloadTooLarge", size |-> size]

InvalidChecksum == [kind |-> "InvalidChecksum"]

IncompleteMessage == [kind |-> "IncompleteMessage"]

InvalidPayload(e) == [kind |-> "InvalidPayload", source |-> e]

\* impl From<UnexpectedEnd> for DecodeError, reached through
\* impl From<Either<L, R>>: every nested UnexpectedEnd becomes
\* IncompleteMessage, a DecodeError stays what it is.
DecodeError_from(e) ==
    IF e.kind = "UnexpectedEnd" THEN IncompleteMessage ELSE e

\* The `?` operator: Ok passes, Err is converted with From.
Try(r) == IF r.ok THEN r ELSE Err(DecodeError_from(r.val))

----------------------------------------------------------------------------
(* Primitive decoders.                                                     *)

\* ByteArrayDecoder<N> / IntDecoder / ByteVecDecoder decode_chunk: take what
\* is still needed from the front of the chunk, leave the remainder.
Capture_decode_chunk(buf, n, bytes) ==
    LET k == Min(n - Len(buf), Len(bytes))
    IN  [buf |-> buf \o Take(bytes, k), rest |-> Drop(bytes, k)]

\* end of a primitive: the captured bytes, or UnexpectedEnd when short.
Capture_end(buf, n) == IF Len(buf) = n THEN Ok(buf) ELSE Err(UnexpectedEnd)

\* ByteArrayDecoder::<4>.chain(ByteArrayDecoder::<12>).chain(IntDecoder)
\*     .chain(ByteArrayDecoder::<4>)
RawHeaderDecoder_new ==
    [magic |-> <<>>, command |-> <<>>, length |-> <<>>, checksum |-> <<>>]

\* Chain::decode_chunk: bytes go to the first decoder; what it leaves goes
\* to the next one.
RawHeaderDecoder_decode_chunk(raw, bytes) ==
    LET m == Capture_decode_chunk(raw.magic, 4, bytes)
        c == Capture_decode_chunk(raw.command, 12, m.rest)
        l == Capture_decode_chunk(raw.length, 4, c.rest)
        k == Capture_decode_chunk(raw.checksum, 4, l.rest)
    IN  [dec |-> [magic |-> m.buf, command |-> c.buf, length |-> l.buf,
                  checksum |-> k.buf],
         rest |-> k.rest]

\* Chain::end: every part's end, in order; the first failure wins.
RawHeaderDecoder_end(raw) ==
    LET m == Capture_end(raw.magic, 4)
        c == Capture_end(raw.command, 12)
        l == Capture_end(raw.length, 4)
        k == Capture_end(raw.checksum, 4)
    IN  IF ~m.ok THEN m
        ELSE IF ~c.ok THEN c
        ELSE IF ~l.ok THEN l
        ELSE IF ~k.ok THEN k
        ELSE Ok([magic_bytes |-> m.val, command_bytes |-> c.val,
                 length |-> u32_from_le_bytes(l.val), checksum |-> k.val])

----------------------------------------------------------------------------
(* The bitcoin crate's consensus decoding, as far as the decoder uses it.  *)

\* encode::deserialize::<CommandString>: twelve bytes holding printable
\* ASCII followed by NUL padding give the token; anything else is refused.
deserialize_CommandString(bytes) ==
    IF \E k \in 0..12 :
           /\ \A i \in 1..k : bytes[i] \in 32..126
           /\ \A i \in (k + 1)..12 : bytes[i] = 0
    THEN Ok(SelectSeq(bytes, LAMBDA b : b # 0))
    ELSE Err([kind |-> "ParseFailed"])

\* A u64 read little-endian, kept as four 16-bit limbs, least significant first.
u64_from_le_bytes(b) ==
    <<b[1] + 256 * b[2], b[3] + 256 * b[4], b[5] + 256 * b[6], b[7] + 256 * b[8]>>

u64_to_le_bytes(v) ==
    <<v[1] % 256, v[1] \div 256, v[2] % 256, v[2] \div 256,
      v[3] % 256, v[3] \div 256, v[4] % 256, v[4] \div 256>>

Ping(nonce) == [kind |-> "Ping", nonce |-> nonce]

Verack == [kind |-> "Verack"]

Unknown(command, payload) ==
    [kind |-> "Unknown", command |-> command, payload |-> payload]

CmdPing == <<112, 105, 110, 103, 0, 0, 0, 0, 0, 0, 0, 0>>

CmdVerack == <<118, 101, 114, 97, 99, 107, 0, 0, 0, 0, 0, 0>>

\* The payload of a message by its command name (NetworkMessage decoding).
decode_payload(command, raw_payload) ==
    IF command = deserialize_CommandString(CmdPing).val
    THEN IF Len(raw_payload) < 8 THEN Err([kind |-> "Io"])
         ELSE Ok(Ping(u64_from_le_bytes(Take(raw_payload, 8))))
    ELSE IF command = deserialize_CommandString(CmdVerack).val
    THEN Ok(Verack)
    ELSE Ok(Unknown(command, raw_payload))

\* encode::deserialize::<RawNetworkMessage>(data) followed by into_payload():
\* data must be one whole serialized message, magic, command, length and
\* checksum included, and nothing more.
deserialize_RawNetworkMessage(data) ==
    IF Len(data) < 24 THEN Err([kind |-> "Io"])
    ELSE
    LET command  == deserialize_CommandString(SubSeq(data, 5, 16))
        length   == u32_from_le_bytes(SubSeq(data, 17, 20))
        checksum == SubSeq(data, 21, 24)
    IN  IF ~command.ok THEN command
        ELSE IF U32Gt(length, U32(Len(data) - 24)) THEN Err([kind |-> "Io"])
        ELSE
        LET raw_payload == SubSeq(data, 25, 24 + as_usize(length))
            payload     == decode_payload(command.val, raw_payload)
        IN  IF sha256d_checksum(raw_payload) # checksum
            THEN Err([kind |-> "InvalidChecksum"])
            ELSE IF ~payload.ok THEN payload
            ELSE IF 24 + as_usize(length) # Len(data)
            THEN Err([kind |-> "ParseFailed"])
            ELSE payload

\* NetworkMessage's command and payload bytes, and RawNetworkMessage's
\* serialization (the examples' create_*_message).
message_command(msg) == IF msg.kind = "Ping" THEN CmdPing ELSE CmdVerack

message_payload(msg) ==
    IF msg.kind = "Ping" THEN u64_to_le_bytes(msg.nonce) ELSE <<>>

\* The wire form of a frame given by its five fields.
SerializeFrame(f) ==
    f.magic \o f.command \o u32_to_le_bytes(f.length) \o f.checksum \o f.payload

\* RawNetworkMessage::new(magic, msg): the frame of a message.
RawNetworkMessage_new(magic, msg) ==
    LET payload == message_payload(msg)
    IN  [magic |-> magic, command |-> message_command(msg),
         length |-> U32(Len(payload)), checksum |-> sha256d_checksum(payload),
         payload |-> payload, origin |-> msg, inner |-> [kind |-> "none"]]

serialize_RawNetworkMessage(magic, msg) ==
    SerializeFrame(RawNetworkMessage_new(magic, msg))

\* Network::magic()
Network_magic(network) ==
    IF network = "Bitcoin" THEN <<249, 190, 180, 217>> ELSE <<11, 17, 9, 7>>

----------------------------------------------------------------------------
(* HeaderDecoder.                                                          *)

HeaderDecoder_new(expected_magic) ==
    [inner |-> RawHeaderDecoder_new, expected_magic |-> expected_magic]

HeaderDecoder_decode_chunk(h, bytes) ==
    LET r == RawHeaderDecoder_decode_chunk(h.inner, bytes)
    IN  [dec |-> [h EXCEPT !.inner = r.dec], rest |-> r.rest, res |-> Ok(Unit)]

\* Variants of HeaderDecoder::end with one slip each.
\* The ceiling compared with >= instead of >.
HeaderDecoder_end_ge(h) ==
    LET raw == Try(RawHeaderDecoder_end(h.inner))
    IN  IF ~raw.ok THEN raw
        ELSE
        LET magic   == raw.val.magic_bytes
            command == deserialize_CommandString(raw.val.command_bytes)
            length  == raw.val.length
        IN  IF ~command.ok THEN Err(InvalidCommand)
            ELSE IF magic # h.expected_magic
            THEN Err(WrongMagic(h.expected_magic, magic))
            ELSE IF U32Gt(length, MAX_PAYLOAD) \/ length = MAX_PAYLOAD
            THEN Err(PayloadTooLarge(length))
            ELSE Ok([magic |-> magic, command |-> command.val,
                     length |-> length, checksum |-> raw.val.checksum])

\* The ceiling written as 64 MiB.
HeaderDecoder_end_64MiB(h) ==
    LET raw == Try(RawHeaderDecoder_end(h.inner))
    IN  IF ~raw.ok THEN raw
        ELSE
        LET magic   == raw.val.magic_bytes
            command == deserialize_CommandString(raw.val.command_bytes)
            length  == raw.val.length
        IN  IF ~command.ok THEN Err(InvalidCommand)
            ELSE IF magic # h.expected_magic
            THEN Err(WrongMagic(h.expected_magic, magic))
            ELSE IF U32Gt(length, U32(64 * 1024 * 1024))
            THEN Err(PayloadTooLarge(length))
            ELSE Ok([magic |-> magic, command |-> command.val,
                     length |-> length, checksum |-> raw.val.checksum])

\* The magic comparison left out.
HeaderDecoder_end_no_magic(h) ==
    LET raw == Try(RawHeaderDecoder_end(h.inner))
    IN  IF ~raw.ok THEN raw
        ELSE
        LET magic   == raw.val.magic_bytes
            command == deserialize_CommandString(raw.val.command_bytes)
            length  == raw.val.length
        IN  IF ~command.ok THEN Err(InvalidCommand)
            ELSE IF U32Gt(length, MAX_PAYLOAD)
            THEN Err(PayloadTooLarge(length))
            ELSE Ok([magic |-> magic, command |-> command.val,
                     length |-> length, checksum |-> raw.val.checksum])

\* The length compared before the magic.
HeaderDecoder_end_length_first(h) ==
    LET raw == Try(RawHeaderDecoder_end(h.inner))
    IN  IF ~raw.ok THEN raw
        ELSE
        LET magic   == raw.val.magic_bytes
            command == deserialize_CommandString(raw.val.command_bytes)
            length  == raw.val.length
        IN  IF ~command.ok THEN Err(InvalidCommand)
            ELSE IF U32Gt(length, MAX_PAYLOAD)
            THEN Err(PayloadTooLarge(length))
            ELSE IF magic # h.expected_magic
            THEN Err(WrongMagic(h.expected_magic, magic))
            ELSE Ok([magic |-> magic, command |-> command.val,
                     length |-> length, checksum |-> raw.val.checksum])

HeaderDecoder_end(h) ==
    LET raw == Try(RawHeaderDecoder_end(h.inner))
    IN  IF ~raw.ok THEN raw
        ELSE
        LET magic   == raw.val.magic_bytes
            command == deserialize_CommandString(raw.val.command_bytes)
            length  == raw.val.length
        IN  IF ~command.ok THEN Err(InvalidCommand)
            ELSE IF magic # h.expected_magic
            THEN Err(WrongMagic(h.expected_magic, magic))
            ELSE IF U32Gt(length, MAX_PAYLOAD)
            THEN Err(PayloadTooLarge(length))
            ELSE Ok([magic |-> magic, command |-> command.val,
                     length |-> length, checksum |-> raw.val.checksum])

----------------------------------------------------------------------------
(* PayloadDecoder.                                                         *)

\* ByteVecDecoder::new(header.length as usize) and the header's checksum;
\* the header's command is not kept.
PayloadDecoder_new(header) ==
    [inner |-> [buf |-> <<>>, required |-> as_usize(header.length)],
     expected_checksum |-> header.checksum]

\* Variant: the cursor is moved past the whole chunk.
PayloadDecoder_decode_chunk_greedy(p, bytes) ==
    LET r == Capture_decode_chunk(p.inner.buf, p.inner.required, bytes)
    IN  [dec |-> [p EXCEPT !.inner.buf = r.buf], rest |-> <<>>,
         res |-> Ok(Unit)]

\* Variant: a chunk that does not complete the payload is reported as a
\* premature end.
PayloadDecoder_decode_chunk_eager_error(p, bytes) ==
    LET r == Capture_decode_chunk(p.inner.buf, p.inner.required, bytes)
    IN  [dec |-> [p EXCEPT !.inner.buf = r.buf], rest |-> r.rest,
         res |-> IF Len(r.buf) < p.inner.required THEN Err(UnexpectedEnd)
                 ELSE Ok(Unit)]

PayloadDecoder_decode_chunk(p, bytes) ==
    LET r == Capture_decode_chunk(p.inner.buf, p.inner.required, bytes)
    IN  [dec |-> [p EXCEPT !.inner.buf = r.buf], rest |-> r.rest,
         res |-> Ok(Unit)]

\* Variant: the checksum comparison left out.
PayloadDecoder_end_no_checksum(p) ==
    LET payload_bytes == Try(Capture_end(p.inner.buf, p.inner.required))
    IN  IF ~payload_bytes.ok THEN payload_bytes
        ELSE
        LET message == deserialize_RawNetworkMessage(payload_bytes.val)
        IN  IF ~message.ok THEN Err(InvalidPayload(message.val))
            ELSE message

\* Variant: the bytes received so far are taken as the payload, short or not.
PayloadDecoder_end_short(p) ==
    IF sha256d_checksum(p.inner.buf) # p.expected_checksum
    THEN Err(InvalidChecksum)
    ELSE
    LET message == deserialize_RawNetworkMessage(p.inner.buf)
    IN  IF ~message.ok THEN Err(InvalidPayload(message.val))
        ELSE message

PayloadDecoder_end(p) ==
    LET payload_bytes == Try(Capture_end(p.inner.buf, p.inner.required))
    IN  IF ~payload_bytes.ok THEN payload_bytes
        ELSE IF sha256d_checksum(payload_bytes.val) # p.expected_checksum
        THEN Err(InvalidChecksum)
        ELSE
        LET message == deserialize_RawNetworkMessage(payload_bytes.val)
        IN  IF ~message.ok THEN Err(InvalidPayload(message.val))
            ELSE message

----------------------------------------------------------------------------
(* V1MessageDecoder: Then<HeaderDecoder, PayloadDecoder, _>.               *)

First(h) == [stage |-> "First", first |-> h]

Second(p) == [stage |-> "Second", second |-> p]

Errored == [stage |-> "Errored"]

Consumed == [stage |-> "Consumed"]

\* V1MessageDecoder::new(network)
V1MessageDecoder_new(network) == First(HeaderDecoder_new(Network_magic(network)))

\* Variant of Then::decode_chunk: the second stage is handed the chunk from
\* its start instead of the bytes the first stage left.
Then_decode_chunk_stale_cursor(t, bytes) ==
    IF t.stage = "First" THEN
        LET h == HeaderDecoder_decode_chunk(t.first, bytes)
        IN  IF h.rest = <<>>
            THEN [dec |-> First(h.dec), rest |-> <<>>, res |-> Ok(Unit),
                  made |-> <<>>]
            ELSE
            LET header == HeaderDecoder_end(h.dec)
            IN  IF ~header.ok
                THEN [dec |-> Errored, rest |-> h.rest, res |-> header,
                      made |-> <<>>]
                ELSE
                LET p == PayloadDecoder_decode_chunk(
                             PayloadDecoder_new(header.val), bytes)
                IN  [dec |-> Second(p.dec), rest |-> p.rest, res |-> p.res,
                     made |-> <<p.dec.inner.required>>]
    ELSE
        LET p == PayloadDecoder_decode_chunk(t.second, bytes)
        IN  [dec |-> Second(p.dec), rest |-> p.rest, res |-> p.res,
             made |-> <<>>]

\* Variant of Then::decode_chunk: a failing first stage takes the whole chunk.
Then_decode_chunk_swallow(t, bytes) ==
    IF t.stage = "First" THEN
        LET h == HeaderDecoder_decode_chunk(t.first, bytes)
        IN  IF h.rest = <<>>
            THEN [dec |-> First(h.dec), rest |-> <<>>, res |-> Ok(Unit),
                  made |-> <<>>]
            ELSE
            LET header == HeaderDecoder_end(h.dec)
            IN  IF ~header.ok
                THEN [dec |-> Errored, rest |-> <<>>, res |-> header,
                      made |-> <<>>]
                ELSE
                LET p == PayloadDecoder_decode_chunk(
                             PayloadDecoder_new(header.val), h.rest)
                IN  [dec |-> Second(p.dec), rest |-> p.rest, res |-> p.res,
                     made |-> <<p.dec.inner.required>>]
    ELSE
        LET p == PayloadDecoder_decode_chunk(t.second, bytes)
        IN  [dec |-> Second(p.dec), rest |-> p.rest, res |-> p.res,
             made |-> <<>>]

\* Then::decode_chunk.  While in the first stage the chunk goes to the
\* header decoder; bytes it leaves show that it is complete: it is ended,
\* the payload decoder is made from its value and gets the remainder.
\* `made` lists the sizes asked of ByteVecDecoder::new by this call.
Then_decode_chunk(t, bytes) ==
    IF t.stage = "First" THEN
        LET h == HeaderDecoder_decode_chunk(t.first, bytes)
        IN  IF h.rest = <<>>
            THEN [dec |-> First(h.dec), rest |-> <<>>, res |-> Ok(Unit),
                  made |-> <<>>]
            ELSE
            LET header == HeaderDecoder_end(h.dec)
            IN  IF ~header.ok
                THEN [dec |-> Errored, rest |-> h.rest, res |-> header,
                      made |-> <<>>]
                ELSE
                LET p == PayloadDecoder_decode_chunk(
                             PayloadDecoder_new(header.val), h.rest)
                IN  [dec |-> Second(p.dec), rest |-> p.rest, res |-> p.res,
                     made |-> <<p.dec.inner.required>>]
    ELSE
        LET p == PayloadDecoder_decode_chunk(t.second, bytes)
        IN  [dec |-> Second(p.dec), rest |-> p.rest, res |-> p.res,
             made |-> <<>>]

\* Then::end.  In the first stage the header decoder is ended and the
\* payload decoder made from its value is ended at once.
\* Variant of Then::end: a decoder still in its first stage is reported as
\* ended too early, without finishing the header.
Then_end_first_incomplete(t) ==
    IF t.stage = "First" THEN [res |-> Err(UnexpectedEnd), made |-> <<>>]
    ELSE [res |-> PayloadDecoder_end(t.second), made |-> <<>>]

Then_end(t) ==
    IF t.stage = "First" THEN
        LET header == HeaderDecoder_end(t.first)
        IN  IF ~header.ok THEN [res |-> header, made |-> <<>>]
            ELSE
            LET p == PayloadDecoder_new(header.val)
            IN  [res |-> PayloadDecoder_end(p), made |-> <<p.inner.required>>]
    ELSE [res |-> PayloadDecoder_end(t.second), made |-> <<>>]

\* Variant: an empty chunk is taken for the end of the input.
V1MessageDecoder_decode_chunk_empty_is_eof(d, bytes) ==
    LET r == Then_decode_chunk(d, bytes)
    IN  IF bytes = <<>>
        THEN [dec |-> Errored, rest |-> bytes,
              res |-> Err(IncompleteMessage), made |-> <<>>]
        ELSE [r EXCEPT !.res = Try(r.res)]

V1MessageDecoder_decode_chunk(d, bytes) ==
    LET r == Then_decode_chunk(d, bytes)
    IN  [r EXCEPT !.res = Try(r.res)]

V1MessageDecoder_end(d) ==
    LET r == Then_end(d)
    IN  [r EXCEPT !.res = Try(r.res)]

----------------------------------------------------------------------------
(* The streams the decoder is run on.  A stream is a sequence of frames,  *)
(* each given by its header fields and the payload bytes that follow the  *)
(* header on the wire, and some surplus bytes after the last frame.        *)

NoMessage == [kind |-> "none"]

Frame(magic, command, length, checksum, payload) ==
    [magic |-> magic, command |-> command, length |-> length,
     checksum |-> checksum, payload |-> payload, origin |-> NoMessage,
     inner |-> NoMessage]

\* A frame whose payload is itself a serialized message.
Wrap(magic, command, msg) ==
    LET inner == serialize_RawNetworkMessage(magic, msg)
    IN  [magic |-> magic, command |-> command, length |-> U32(Len(inner)),
         checksum |-> sha256d_checksum(inner), payload |-> inner,
         origin |-> NoMessage, inner |-> msg]

\* The frame with payload byte i changed and the checksum field kept.
FlipPayloadByte(f, i) ==
    [f EXCEPT !.payload[i] = (f.payload[i] + 1) % 256,
              !.origin = NoMessage, !.inner = NoMessage]

RECURSIVE FramesBytes(_)
FramesBytes(fs) ==
    IF fs = <<>> THEN <<>> ELSE SerializeFrame(Head(fs)) \o FramesBytes(Tail(fs))

Surplus(k) == [i \in 1..k |-> 170 + i]

Stream(frames, k) ==
    [frames |-> frames, surplus |-> k,
     bytes |-> FramesBytes(frames) \o Surplus(k)]

Networks == {"Bitcoin", "Testnet"}

Nonces == {<<1, 0, 0, 0>>, <<52719, 37035, 22136, 4660>>}

BTC == Network_magic("Bitcoin")

CmdBadByte == <<112, 255, 110, 103, 0, 0, 0, 0, 0, 0, 0, 0>>

CmdInnerNul == <<112, 0, 110, 103, 0, 0, 0, 0, 0, 0, 0, 0>>

\* Declared lengths around the ceiling and at the ends of the u32 range.
Ceiling == [hi |-> 512, lo |-> 0]

DeclaredLengths ==
    {Ceiling, [hi |-> 512, lo |-> 1], [hi |-> 511, lo |-> 65535],
     [hi |-> 513, lo |-> 0], [hi |-> 65535, lo |-> 65535]}

GoodFrames ==
    {Wrap(BTC, CmdPing, Ping(n)) : n \in Nonces}
        \cup {Wrap(BTC, CmdVerack, Verack)}

EncodedFrames ==
    {RawNetworkMessage_new(BTC, Ping(n)) : n \in Nonces}
        \cup {RawNetworkMessage_new(BTC, Verack)}

BadChecksumFrames ==
    {FlipPayloadByte(Wrap(BTC, CmdPing, Ping(<<1, 0, 0, 0>>)), i) : i \in {1, 17, 32}}
        \cup {FlipPayloadByte(RawNetworkMessage_new(BTC, Ping(<<1, 0, 0, 0>>)), 8)}
        \cup {Frame(BTC, CmdVerack, U32(0), <<0, 0, 0, 0>>, <<>>)}
        \cup {[Wrap(BTC, CmdVerack, Verack) EXCEPT !.checksum = <<0, 0, 0, 0>>,
                                                  !.inner = NoMessage]}

BadCommandFrames ==
    {Frame(BTC, c, l, sha256d_checksum(<<7, 7>>), <<7, 7>>) :
        c \in {CmdBadByte, CmdInnerNul}, l \in {U32(2), [hi |-> 512, lo |-> 1]}}

DeclaredFrames ==
    {Frame(BTC, CmdPing, l, <<1, 2, 3, 4>>, <<9, 8, 7>>) : l \in DeclaredLengths}

Streams ==
    {Stream(<<f>>, k) : f \in GoodFrames \cup EncodedFrames, k \in {0, MaxSurplus}}
        \cup {Stream(<<f>>, 1) :
                f \in BadChecksumFrames \cup BadCommandFrames \cup DeclaredFrames}
        \cup {Stream(<<f, g>>, 0) :
                f \in {Wrap(BTC, CmdVerack, Verack)},
                g \in {Wrap(BTC, CmdPing, Ping(<<1, 0, 0, 0>>)),
                       Wrap(BTC, CmdVerack, Verack)}}

----------------------------------------------------------------------------
(* The caller.                                                             *)

Init ==
    /\ input \in [stream : Streams, network : Networks]
    /\ decoder = V1MessageDecoder_new(input.network)
    /\ pos = 0
    /\ start = 0
    /\ status = "feeding"
    /\ result = Ok(Unit)
    /\ lastop = "new"
    /\ leftover = FALSE
    /\ messages = <<>>
    /\ requested = <<>>
    /\ ndecoders = 1
    /\ nfed = 0
    /\ instances = <<>>
    /\ schedule = [last |-> 0, turns |-> 0]

\* decoder.decode_chunk(&mut bytes) on a chunk of the next n bytes of the
\* stream; the cursor advances by what the decoder consumed.
DecodeChunk(n) ==
    /\ status = "feeding"
    /\ LET chunk == SubSeq(input.stream.bytes, pos + 1, pos + n)
           r     == V1MessageDecoder_decode_chunk(decoder, chunk)
       IN  /\ decoder' = r.dec
           /\ pos' = pos + (n - Len(r.rest))
           /\ status' = IF r.res.ok THEN "feeding" ELSE "failed"
           /\ result' = r.res
           /\ leftover' = (r.rest # <<>>)
           /\ requested' = requested \o r.made
           /\ nfed' = IF Len(r.rest) < n THEN Min(nfed + 1, MaxCounted) ELSE nfed
    /\ lastop' = "decode_chunk"
    /\ UNCHANGED <<input, start, messages, ndecoders, instances, schedule>>

\* decoder.end(): the caller declares the end of this decoder's input.
End ==
    /\ status = "feeding"
    /\ LET r == V1MessageDecoder_end(decoder)
       IN  /\ result' = r.res
           /\ requested' = requested \o r.made
           /\ messages' = IF r.res.ok THEN Append(messages, r.res.val)
                          ELSE messages
    /\ decoder' = Consumed
    /\ status' = "ended"
    /\ lastop' = "end"
    /\ leftover' = FALSE
    /\ UNCHANGED <<input, pos, start, ndecoders, nfed, instances, schedule>>

\* The caller's loop: after a message, a fresh decoder for the next frame.
NewDecoder ==
    /\ status = "ended"
    /\ result.ok
    /\ ndecoders < MaxDecoders
    /\ decoder' = V1MessageDecoder_new(input.network)
    /\ start' = pos
    /\ status' = "feeding"
    /\ result' = Ok(Unit)
    /\ lastop' = "new"
    /\ leftover' = FALSE
    /\ ndecoders' = ndecoders + 1
    /\ nfed' = 0
    /\ UNCHANGED <<input, pos, messages, requested, instances, schedule>>

Next ==
    \/ \E n \in 0..(Len(input.stream.bytes) - pos) : DecodeChunk(n)
    \/ End
    \/ NewDecoder

Spec == Init /\ [][Next]_vars

----------------------------------------------------------------------------
(* Several decoders side by side, one per stream.  A V1MessageDecoder owns *)
(* its state (the `inner` field) and its methods take `&mut self`: a call  *)
(* on one instance is given that instance alone.                           *)

Instances == {1, 2}

InstanceChunks == {0, 8, 24}

InstanceInputs ==
    {[stream |-> Stream(<<Wrap(BTC, CmdVerack, Verack)>>, MaxSurplus).bytes,
      network |-> "Bitcoin"],
     [stream |-> Stream(<<RawNetworkMessage_new(BTC, Ping(<<1, 0, 0, 0>>))>>, 0).bytes,
      network |-> "Bitcoin"],
     [stream |-> Stream(<<Wrap(BTC, CmdPing, Ping(<<1, 0, 0, 0>>))>>, 0).bytes,
      network |-> "Testnet"]}

\* V1MessageDecoder::new(network), one per stream.
Instance_new(in) ==
    [stream |-> in.stream, network |-> in.network,
     decoder |-> V1MessageDecoder_new(in.network),
     pos |-> 0, status |-> "feeding", result |-> Ok(Unit), leftover |-> FALSE]

\* Variant: the decoders keep their state in one place shared by all of them.
Instance_decode_chunk_shared(insts, i, n) ==
    LET me    == insts[i]
        chunk == SubSeq(me.stream, me.pos + 1, Min(me.pos + n, Len(me.stream)))
        r     == V1MessageDecoder_decode_chunk(me.decoder, chunk)
    IN  [j \in DOMAIN insts |->
            IF j = i
            THEN [me EXCEPT !.decoder = r.dec,
                            !.pos = me.pos + (Len(chunk) - Len(r.rest)),
                            !.status = IF r.res.ok THEN "feeding" ELSE "failed",
                            !.result = r.res,
                            !.leftover = (r.rest # <<>>)]
            ELSE [insts[j] EXCEPT !.decoder = r.dec]]

\* insts[i].decoder.decode_chunk(&mut bytes) on the next n bytes of its own
\* stream (fewer at the end of the stream).
Instance_decode_chunk(insts, i, n) ==
    LET me    == insts[i]
        chunk == SubSeq(me.stream, me.pos + 1, Min(me.pos + n, Len(me.stream)))
        r     == V1MessageDecoder_decode_chunk(me.decoder, chunk)
    IN  [insts EXCEPT ![i] =
            [me EXCEPT !.decoder = r.dec,
                       !.pos = me.pos + (Len(chunk) - Len(r.rest)),
                       !.status = IF r.res.ok THEN "feeding" ELSE "failed",
                       !.result = r.res,
                       !.leftover = (r.rest # <<>>)]]

\* insts[i].decoder.end()
Instance_end(insts, i) ==
    LET me == insts[i]
        r  == V1MessageDecoder_end(me.decoder)
    IN  [insts EXCEPT ![i] =
            [me EXCEPT !.decoder = Consumed, !.status = "ended",
                       !.result = r.res, !.leftover = FALSE]]

Turn(i) ==
    [last |-> i,
     turns |-> IF schedule.last \in {0, i} THEN schedule.turns
               ELSE Min(schedule.turns + 1, MaxCounted)]

InitInstances ==
    /\ input = [stream |-> Stream(<<>>, 0), network |-> "Bitcoin"]
    /\ decoder = Consumed
    /\ pos = 0
    /\ start = 0
    /\ status = "ended"
    /\ result = Ok(Unit)
    /\ lastop = "new"
    /\ leftover = FALSE
    /\ messages = <<>>
    /\ requested = <<>>
    /\ ndecoders = 0
    /\ nfed = 0
    /\ \E ins \in [Instances -> InstanceInputs] :
           instances = [i \in Instances |-> Instance_new(ins[i])]
    /\ schedule = [last |-> 0, turns |-> 0]

InstanceDecodeChunk(i, n) ==
    /\ instances[i].status = "feeding"
    /\ instances' = Instance_decode_chunk(instances, i, n)
    /\ schedule' = Turn(i)
    /\ UNCHANGED <<input, decoder, pos, start, status, result, lastop,
                   leftover, messages, requested, ndecoders, nfed>>

InstanceEnd(i) ==
    /\ instances[i].status = "feeding"
    /\ instances' = Instance_end(instances, i)
    /\ schedule' = Turn(i)
    /\ UNCHANGED <<input, decoder, pos, start, status, result, lastop,
                   leftover, messages, requested, ndecoders, nfed>>

NextInstances ==
    \/ \E i \in Instances, n \in InstanceChunks : InstanceDecodeChunk(i, n)
    \/ \E i \in Instances : InstanceEnd(i)

SpecInstances == InitInstances /\ [][NextInstances]_vars

----------------------------------------------------------------------------
(* Vocabulary of the properties: facts about the stream as it was built,  *)
(* not as the decoder parsed it.                                           *)

\* Bytes of frame f on the wire.
FrameLen(f) == 24 + Len(f.payload)

RECURSIVE FrameStart(_, _)
\* Offset of the i-th frame of a stream.
FrameStart(fs, i) ==
    IF i = 1 THEN 0 ELSE FrameStart(fs, i - 1) + FrameLen(fs[i - 1])

\* The live (or just ended) decoder was constructed at the first byte of a
\* frame of the stream.
OnFrame ==
    /\ ndecoders <= Len(input.stream.frames)
    /\ start = FrameStart(input.stream.frames, ndecoders)

cur == input.stream.frames[ndecoders]

consumed == pos - start

MagicOk(f) == f.magic = Network_magic(input.network)

CommandOk(f) == f.command \in {CmdPing, CmdVerack}

LengthOk(f) == f.length.hi < 512 \/ f.length = Ceiling

HeaderOk(f) == CommandOk(f) /\ MagicOk(f) /\ LengthOk(f)

\* All declared payload bytes are on the wire.
Complete(f) == LengthOk(f) /\ f.length = U32(Len(f.payload))

ChecksumOk(f) == sha256d_checksum(f.payload) = f.checksum

WellFormed(f) ==
    HeaderOk(f) /\ Complete(f) /\ ChecksumOk(f) /\ f.inner # NoMessage

HeaderErrors == {"WrongMagic", "InvalidCommand", "PayloadTooLarge"}

ended == lastop = "end"

failed == status = "failed"

----------------------------------------------------------------------------
C2_RoundTrip ==
    (ended /\ OnFrame /\ cur.origin # NoMessage /\ MagicOk(cur)
           /\ consumed = FrameLen(cur))
        => result = Ok(cur.origin)

(* C3: a header-stage failure leaves the cursor at the first byte after   *)
(* the 24 header bytes, and a header with a foreign magic never has a     *)
(* payload byte consumed.                                                  *)
C3_HeaderFailureConsumes24 ==
    /\ (~result.ok /\ result.val.kind \in HeaderErrors) => consumed = 24
    /\ (OnFrame /\ ~MagicOk(cur)) => consumed <= 24

\* decode_chunk failed on a foreign magic with payload bytes left in its chunk.
C3_Witness ==
    /\ failed /\ lastop = "decode_chunk" /\ leftover
    /\ result.val.kind = "WrongMagic"
    /\ OnFrame /\ Len(cur.payload) > 1
    /\ consumed = 24

(* C4 as stated: a header with a foreign magic, or declaring 32 MiB + 1,  *)
(* is rejected by the decode_chunk call that consumes its 24th byte.       *)
RejectedHeader(f) ==
    CommandOk(f) /\ (~MagicOk(f) \/ f.length = [hi |-> 512, lo |-> 1])

RejectionOf(f) ==
    IF ~MagicOk(f) THEN WrongMagic(Network_magic(input.network), f.magic)
    ELSE PayloadTooLarge(f.length)

C4_RejectedOnHeaderCompletion ==
    (OnFrame /\ RejectedHeader(cur) /\ lastop = "decode_chunk" /\ consumed = 24)
        => failed

(* C4 amended: such a header is rejected by the first decode_chunk call   *)
(* that is handed a byte beyond the 24 header bytes (the call completing  *)
(* the header, when its chunk holds a further byte), or by end; no byte   *)
(* beyond the header is consumed.                                          *)
C4_RejectedOnFirstByteBeyondHeader ==
    (OnFrame /\ RejectedHeader(cur)) =>
        /\ consumed <= 24
        /\ (lastop = "decode_chunk" /\ consumed = 24 /\ leftover)
               => (failed /\ result = Err(RejectionOf(cur)))
        /\ (ended /\ consumed = 24) => result = Err(RejectionOf(cur))

\* A header declaring 32 MiB + 1 was rejected by a decode_chunk call that was
\* handed bytes beyond the header.
C4_Witness ==
    /\ OnFrame /\ RejectedHeader(cur) /\ MagicOk(cur)
    /\ lastop = "decode_chunk" /\ consumed = 24 /\ leftover
    /\ result = Err(PayloadTooLarge([hi |-> 512, lo |-> 1]))

(* C5: with a valid command and the configured magic, a header passes the *)
(* header stage exactly when its declared length is at most 33,554,432;   *)
(* a larger one fails with PayloadTooLarge carrying the declared value.    *)
C5_LengthCeiling ==
    (OnFrame /\ CommandOk(cur) /\ MagicOk(cur)) =>
        /\ LengthOk(cur) =>
              /\ ~failed
              /\ result.val.kind \notin HeaderErrors
        /\ ~LengthOk(cur) =>
              /\ decoder.stage # "Second"
              /\ requested = <<>>
              /\ (failed \/ (ended /\ consumed = 24))
                     => result = Err(PayloadTooLarge(cur.length))

\* A header declaring exactly 33,554,432 bytes passed the header stage.
C5_Witness ==
    /\ OnFrame /\ CommandOk(cur) /\ MagicOk(cur) /\ cur.length = Ceiling
    /\ decoder.stage = "Second"
    /\ consumed > 24

(* C6: a payload decoder is only ever made from a header with the         *)
(* configured magic and a length of at most 32 MiB, so no payload buffer  *)
(* above 32 MiB is requested and no more than the declared payload is     *)
(* buffered.                                                               *)
C6_PayloadStageOnlyAfterChecks ==
    /\ \A i \in DOMAIN requested :
          /\ requested[i] <= 32 * 1024 * 1024
          /\ i <= Len(input.stream.frames)
          /\ MagicOk(input.stream.frames[i])
          /\ LengthOk(input.stream.frames[i])
          /\ requested[i] = as_usize(input.stream.frames[i].length)
    /\ decoder.stage = "Second" =>
          /\ Len(requested) = ndecoders
          /\ decoder.second.inner.required = requested[ndecoders]
          /\ Len(decoder.second.inner.buf) <= decoder.second.inner.required
          /\ consumed = 24 + Len(decoder.second.inner.buf)
    /\ decoder.stage = "First" => consumed <= 24

\* A payload decoder for the largest admitted length holds payload bytes.
C6_Witness ==
    /\ decoder.stage = "Second"
    /\ requested = <<32 * 1024 * 1024>>
    /\ Len(decoder.second.inner.buf) = 3

(* C7: when the checksum of the accumulated payload differs from the      *)
(* header's checksum field, end returns InvalidChecksum and no message,   *)
(* whatever the message codec would have made of the bytes.                *)
C7_ChecksumMismatchRejected ==
    (ended /\ OnFrame /\ HeaderOk(cur) /\ Complete(cur)
           /\ consumed = FrameLen(cur) /\ ~ChecksumOk(cur))
        => (result = Err(InvalidChecksum) /\ Len(messages) = ndecoders - 1)

\* A payload the codec would accept was rejected for its checksum field.
C7_Witness ==
    /\ ended /\ OnFrame /\ HeaderOk(cur) /\ Complete(cur)
    /\ consumed = FrameLen(cur)
    /\ cur.checksum = <<0, 0, 0, 0>>
    /\ deserialize_RawNetworkMessage(cur.payload).ok
    /\ result = Err(InvalidChecksum)

FirstFailure(f) ==
    IF ~CommandOk(f) THEN InvalidCommand
    ELSE IF ~MagicOk(f) THEN WrongMagic(Network_magic(input.network), f.magic)
    ELSE PayloadTooLarge(f.length)

C10_CheckOrder ==
    (OnFrame /\ consumed >= 24 /\ (failed \/ ended)) =>
        /\ HeaderOk(cur) <=> Len(requested) = ndecoders
        /\ HeaderOk(cur) => result.val.kind \notin HeaderErrors
        /\ ~HeaderOk(cur) => result = Err(FirstFailure(cur))

\* A header with a foreign magic and an oversized length failed on the magic.
C10_Witness ==
    /\ OnFrame /\ CommandOk(cur) /\ ~MagicOk(cur) /\ ~LengthOk(cur)
    /\ result = Err(WrongMagic(Network_magic(input.network), cur.magic))
    /\ result.val.expected # result.val.actual

(* C11: on a checksum match the codec is given the verified payload bytes *)
(* and the command name of the header, and its result is returned as it   *)
(* is: the message, or InvalidPayload around the codec's error.            *)
CodecResult(f) ==
    LET r == decode_payload(deserialize_CommandString(f.command).val, f.payload)
    IN  IF r.ok THEN r ELSE Err(InvalidPayload(r.val))

C11_CodecGetsHeaderCommand ==
    (ended /\ OnFrame /\ HeaderOk(cur) /\ Complete(cur) /\ ChecksumOk(cur)
           /\ consumed = FrameLen(cur))
        => result = CodecResult(cur)

(* C12: a decode_chunk call after which the decoder still lacks bytes     *)
(* returns Ok and takes its whole chunk; IncompleteMessage comes from end *)
(* only.                                                                   *)
LacksBytes ==
    \/ consumed < 24
    \/ OnFrame /\ HeaderOk(cur) /\ consumed < 24 + as_usize(cur.length)

C12_NeedingMoreIsNoError ==
    /\ (lastop = "decode_chunk" /\ LacksBytes)
           => (~failed /\ result = Ok(Unit) /\ ~leftover)
    /\ result = Err(IncompleteMessage) => ended

\* A valid header and part of its payload were fed in pieces; the decoder waits.
C12_Witness ==
    /\ lastop = "decode_chunk" /\ OnFrame /\ HeaderOk(cur)
    /\ consumed > 24 /\ consumed < 24 + as_usize(cur.length)
    /\ nfed >= 2 /\ decoder.stage = "Second"
    /\ result = Ok(Unit)

(* C13: InvalidChecksum and InvalidPayload are returned only by end and   *)
(* only after exactly 24 + length bytes were consumed; with fewer payload *)
(* bytes end returns IncompleteMessage.                                    *)
C13_PayloadFailuresAfterFullPayload ==
    /\ (~result.ok /\ result.val.kind \in {"InvalidChecksum", "InvalidPayload"})
           => /\ ended /\ OnFrame /\ HeaderOk(cur)
              /\ consumed = 24 + as_usize(cur.length)
    /\ (ended /\ OnFrame /\ HeaderOk(cur)
              /\ consumed < 24 + as_usize(cur.length))
           => result = Err(IncompleteMessage)

\* A codec failure was reported after the whole payload, fed in pieces.
C13_Witness ==
    /\ ended /\ OnFrame /\ HeaderOk(cur) /\ Len(cur.payload) > 0
    /\ consumed = 24 + as_usize(cur.length) /\ nfed >= 2
    /\ result.val.kind = "InvalidPayload"

(* C14: whatever the chunking, the header bytes are assigned by position: *)
(* bytes 0-3 magic, 4-15 command, 16-19 the length as an unsigned         *)
(* little-endian 32-bit integer, 20-23 the checksum the payload is         *)
(* verified against.                                                       *)
\* The bytes of the stream from offset i to offset j of the current decoder's
\* input, as far as the decoder has consumed them.
HeaderBytes(i, j) ==
    SubSeq(input.stream.bytes, start + i + 1, start + Min(j + 1, consumed))

\* b16 + 256*b17 + 65536*b18 + 16777216*b19, in 16-bit halves.
LengthAt16 ==
    LET b == HeaderBytes(16, 19)
    IN  [hi |-> b[3] + 256 * b[4], lo |-> b[1] + 256 * b[2]]

C14_HeaderFieldsByPosition ==
    /\ decoder.stage = "First" =>
           LET raw == decoder.first.inner
           IN  /\ consumed <= 24
               /\ raw.magic    = HeaderBytes(0, 3)
               /\ raw.command  = HeaderBytes(4, 15)
               /\ raw.length   = HeaderBytes(16, 19)
               /\ raw.checksum = HeaderBytes(20, 23)
    /\ decoder.stage = "Second" =>
           /\ consumed >= 24
           /\ U32(decoder.second.inner.required) = LengthAt16
           /\ decoder.second.expected_checksum = HeaderBytes(20, 23)
    /\ (~result.ok /\ result.val.kind = "WrongMagic") =>
           result.val.actual = HeaderBytes(0, 3)
    /\ (~result.ok /\ result.val.kind = "PayloadTooLarge") =>
           result.val.size = LengthAt16
    /\ (Len(requested) = ndecoders /\ consumed >= 24) =>
           U32(requested[ndecoders]) = LengthAt16

\* A header fed in pieces put the decoder in its payload stage with a
\* non-zero length and the checksum of bytes 20-23.
C14_Witness ==
    /\ decoder.stage = "Second" /\ nfed >= 2 /\ consumed > 24
    /\ decoder.second.inner.required > 0
    /\ U32(decoder.second.inner.required) = LengthAt16
    /\ decoder.second.expected_checksum = HeaderBytes(20, 23)

(* C15: decode_chunk with an empty slice is a no-op in every state of a   *)
(* live decoder: it returns Ok, consumes nothing and leaves the decoder    *)
(* as it was, so what follows is as if the call had not been made.         *)
C15_EmptyFeedIsNoOp ==
    status = "feeding" =>
        V1MessageDecoder_decode_chunk(decoder, <<>>)
            = [dec |-> decoder, rest |-> <<>>, res |-> Ok(Unit), made |-> <<>>]

\* The second decoder of a stream has been called once or more, has taken
\* no byte and refused none: it was fed empty chunks only.
C15_Witness ==
    /\ status = "feeding" /\ lastop = "decode_chunk" /\ ndecoders = 2
    /\ consumed = 0 /\ ~leftover /\ result = Ok(Unit)
    /\ decoder = V1MessageDecoder_new(input.network)
    /\ pos < Len(input.stream.bytes)

(* C17: for a valid header declaring length 0, end right after the 24     *)
(* header bytes validates the header, builds the payload stage for 0      *)
(* bytes, compares the header checksum with the checksum of the empty      *)
(* string and goes on to the codec; the outcome is never IncompleteMessage *)
(* and a wrong magic or checksum is reported as WrongMagic or              *)
(* InvalidChecksum.                                                        *)
ZeroLengthFrame ==
    /\ OnFrame /\ CommandOk(cur) /\ cur.length = U32(0) /\ consumed = 24

C17_ZeroLengthPayloadAtEnd ==
    (ended /\ ZeroLengthFrame /\ ~leftover) =>
        /\ result # Err(IncompleteMessage)
        /\ ~MagicOk(cur) =>
               /\ result = Err(WrongMagic(Network_magic(input.network), cur.magic))
               /\ Len(requested) = ndecoders - 1
        /\ MagicOk(cur) =>
               /\ Len(requested) = ndecoders /\ requested[ndecoders] = 0
               /\ IF cur.checksum # sha256d_checksum(<<>>)
                  THEN result = Err(InvalidChecksum)
                  ELSE LET m == deserialize_RawNetworkMessage(<<>>)
                       IN  result = IF m.ok THEN Ok(message_payload(m.val))
                                    ELSE Err(InvalidPayload(m.val))

\* A 24-byte stream holding one valid header of length 0 with the checksum
\* of the empty string was ended: the codec was reached.
C17_Witness ==
    /\ ended /\ ZeroLengthFrame /\ MagicOk(cur)
    /\ Len(input.stream.bytes) = 24
    /\ cur.checksum = sha256d_checksum(<<>>)
    /\ requested = <<0>>
    /\ ~result.ok /\ result.val.kind = "InvalidPayload"

(* C16: decoders fed their own streams in any interleaving of             *)
(* decode_chunk/end calls each consume what they consume, and end as they  *)
(* end, when driven alone; no call on one instance changes another.        *)
\* The decoder of instance me driven alone: one decode_chunk call on bytes.
Alone(me, bytes) ==
    V1MessageDecoder_decode_chunk(V1MessageDecoder_new(me.network), bytes)

AloneConsumed(me) == Len(me.stream) - Len(Alone(me, me.stream).rest)

AloneOutcome(me, bytes) ==
    LET r == Alone(me, bytes)
    IN  IF ~r.res.ok THEN r.res ELSE V1MessageDecoder_end(r.dec).res

C16_InstancesIndependent ==
    \A i \in DOMAIN instances :
        LET me == instances[i]
        IN  /\ me.pos <= AloneConsumed(me)
            /\ (me.leftover \/ me.status = "failed") => me.pos = AloneConsumed(me)
            /\ me.status = "feeding" =>
                   me.decoder = Alone(me, Take(me.stream,
                                    me.pos + IF me.leftover THEN 1 ELSE 0)).dec
            /\ me.status \in {"ended", "failed"} =>
                   me.result = AloneOutcome(me, Take(me.stream, me.pos))

\* Two decoders on different streams, the caller having gone from one to the
\* other and back: one returned its message, the other was refused.
C16_Witness ==
    /\ DOMAIN instances = Instances
    /\ schedule.turns >= 2
    /\ instances[1].stream # instances[2].stream
    /\ instances[1].status = "ended" /\ instances[1].result.ok
    /\ instances[1].pos = AloneConsumed(instances[1])
    /\ instances[2].status = "failed"
    /\ instances[2].result.val.kind = "WrongMagic"

====
